---- MODULE Spec2Model ----
(***************************************************************************)
(* Model of the SurveyXact synchronisation scripts.                        *)
(*                                                                         *)
(*   Spec        RespondentAnswers.get_answers (src/surveyxact.utility.py) *)
(*               the questionnaire index and the two-pass reconciliation   *)
(*               of a respondent's answers.                                *)
(*   SpecUpload  process_base_respondents (src/process_survey.py) with     *)
(*               CreateRespondent.insert_respondent / save_respondent_to_db*)
(*               and DatabaseManager (src/surveyxact.utility.py).          *)
(*                                                                         *)
(* Documents are the nested dictionaries the code indexes (the values of   *)
(* json.loads at lines 343 and 362): dictionaries are functions with       *)
(* string keys, lists are sequences, a missing key is a key that is not in *)
(* the DOMAIN.                                                             *)
(***************************************************************************)
EXTENDS Naturals, Sequences, FiniteSets, TLC

VARIABLES
    pc,                 \* get_answers: position in the function body
    err,                \* get_answers: the exception that left the function, or "none"
    json_data,          \* get_answers: local json_data (lines 343, 361)
    questions_mapping,  \* get_answers: local questions_mapping
    data,               \* get_answers: local data (line 362)
    answers,            \* get_answers: local answers
    si,                 \* get_answers: position of the loop of line 369
    ti,                 \* get_answers: position of the loop of line 400
    result,             \* get_answers: the value returned (line 418)
    upc,                \* process_base_respondents: position
    uerr,               \* process_base_respondents: the exception that left it, or "none"
    respondents,        \* process_base_respondents: len(respondent_dicts)
    ri,                 \* process_base_respondents: position of the loop of line 58
    attempt,            \* save_respondent_to_db: the loop variable i of line 289
    conns,              \* every DatabaseManager built so far: "open" or "closed"
    db_manager,         \* process_base_respondents: local db_manager (index in conns)
    uploader_db,        \* CreateRespondent.db_manager (index in conns)
    posts,              \* per respondent: HTTP POSTs sent (line 256)
    inserts,            \* per respondent: cursor.execute calls made (line 291)
    failures,           \* per respondent: failed insert attempts (line 294)
    commits,            \* per respondent: successful commits (line 292)
    rebuilds            \* per respondent: DatabaseManager rebuilds started (line 298)

rvars == <<pc, err, json_data, questions_mapping, data, answers, si, ti, result>>
uvars == <<upc, uerr, respondents, ri, attempt, conns, db_manager, uploader_db,
           posts, inserts, failures, commits, rebuilds>>
vars == <<rvars, uvars>>

(***************************************************************************)
(* Bounds of the model.                                                    *)
(***************************************************************************)
MaxVars == 1          \* question entries in a questionnaire document
MaxChoices == 1       \* choice entries of one question entry
MaxSingle == 2        \* coded-choice entries in a respondent document
MaxText == 2          \* free-text entries in a respondent document
MaxRespondents == 3   \* rows handed to process_base_respondents

(***************************************************************************)
(* Python values and dictionary access.                                    *)
(***************************************************************************)
None == "<None>"
EmptyDict == [k \in {} |-> ""]

HasKey(d, k) == k \in DOMAIN d
\* d.get(k, default)
Get(d, k, default) == IF k \in DOMAIN d THEN d[k] ELSE default
\* d[k] = v
Put(d, k, v) == [x \in DOMAIN d \cup {k} |-> IF x = k THEN v ELSE d[x]]
\* truth value of a string-or-None in `if x:`
Truthy(x) == x # None /\ x # ""

SeqsUpTo(S, n) == UNION {[1..k -> S] : k \in 0..n}

(***************************************************************************)
(* The documents get_answers can receive.                                  *)
(***************************************************************************)
QuestionNames == {"Q1"}
AnswerNames == {"Q1", "Q2"}
ChoiceValues == {"1"}
AnswerValues == {"1", "9"}
AnswerTexts == {"", "free"}

\* a text block: with or without its text body
TextBlocks(body) == {EmptyDict, "#text" :> body}

ChoiceEntries ==
    {("@value" :> v) : v \in ChoiceValues}
    \cup {("@value" :> v) @@ ("text" :> t) : v \in ChoiceValues, t \in TextBlocks("Yes")}

QuestionEntries ==
    LET named == {("@name" :> n) : n \in QuestionNames}
        texted == named \cup {e @@ ("text" :> t) : e \in named, t \in TextBlocks("Prompt")}
    IN  texted \cup {e @@ ("varChoice" :> c) :
                        e \in texted, c \in SeqsUpTo(ChoiceEntries, MaxChoices)}

QuestionnaireDocs ==
    {"questionnaire" :> EmptyDict,
     "questionnaire" :> ("foreground" :> EmptyDict)}
    \cup {"questionnaire" :> ("foreground" :> ("variable" :> v)) :
             v \in SeqsUpTo(QuestionEntries, MaxVars)}

SingleEntries ==
    {("@name" :> n) @@ ("choice" :> ("@value" :> v)) : n \in AnswerNames, v \in AnswerValues}

TextEntries ==
    {("@name" :> n) : n \in AnswerNames}
    \cup {("@name" :> n) @@ ("#text" :> t) : n \in AnswerNames, t \in AnswerTexts}

AnswerContainers ==
    LET singles == SeqsUpTo(SingleEntries, MaxSingle)
        texts == SeqsUpTo(TextEntries, MaxText)
    IN  {EmptyDict}
        \cup {"valueSingle" :> s : s \in singles}
        \cup {"valueText" :> t : t \in texts}
        \cup {("valueSingle" :> s) @@ ("valueText" :> t) : s \in singles, t \in texts}

RespondentDocs ==
    {EmptyDict}
    \cup {"respondentanswer" :> (("@key" :> "R1") @@ ("answer" :> a)) : a \in AnswerContainers}

SurveyId == "S1"

(***************************************************************************)
(* get_answers: the questionnaire index (lines 345-359).                   *)
(***************************************************************************)
\* block.get('#text', '')
TextBody(block) == Get(block, "#text", "")

RECURSIVE BuildChoices(_, _)
\* the loop of lines 354-357 over the first k entries of varChoice
BuildChoices(list, k) ==
    IF k = 0 THEN EmptyDict
    ELSE Put(BuildChoices(list, k - 1), list[k]["@value"], TextBody(list[k]["text"]))

\* the value stored at line 359
IndexEntry(item) ==
    [text |-> TextBody(item["text"]),
     choices |-> IF HasKey(item, "varChoice")
                 THEN BuildChoices(item["varChoice"], Len(item["varChoice"]))
                 ELSE EmptyDict]

\* ItemFails, were the text body read with ['#text'] instead of .get('#text', '')
ItemFailsOnMissingBody(item) ==
    \/ ~HasKey(item, "text")
    \/ ~HasKey(item["text"], "#text")
    \/ /\ HasKey(item, "varChoice")
       /\ \E k \in 1..Len(item["varChoice"]) :
             \/ ~HasKey(item["varChoice"][k], "text")
             \/ ~HasKey(item["varChoice"][k]["text"], "#text")

\* item['text'] (line 350) or choice['text'] (line 356) raises KeyError
ItemFails(item) ==
    \/ ~HasKey(item, "text")
    \/ /\ HasKey(item, "varChoice")
       /\ \E k \in 1..Len(item["varChoice"]) : ~HasKey(item["varChoice"][k], "text")

RECURSIVE BuildMapping(_, _)
\* the loop of lines 348-359 over the first k entries
BuildMapping(list, k) ==
    IF k = 0 THEN EmptyDict
    ELSE Put(BuildMapping(list, k - 1), list[k]["@name"], IndexEntry(list[k]))

\* json_data['questionnaire']['foreground']['variable'] can be read (line 346)
HasVariables(doc) ==
    /\ HasKey(doc, "questionnaire")
    /\ HasKey(doc["questionnaire"], "foreground")
    /\ HasKey(doc["questionnaire"]["foreground"], "variable")

foreground_variables == json_data["questionnaire"]["foreground"]["variable"]

(***************************************************************************)
(* get_answers: the reconciliation (lines 361-418).                        *)
(***************************************************************************)
\* HasRoot, were the root read with .get('respondentanswer', {})
HasRootAssumed(doc) == TRUE

\* data['respondentanswer'] can be read (line 366)
HasRoot(doc) == HasKey(doc, "respondentanswer")

valueSingle == Get(data["respondentanswer"]["answer"], "valueSingle", <<>>)
valueText == Get(data["respondentanswer"]["answer"], "valueText", <<>>)

\* QuestionText, with the empty string as the default
QuestionTextOrEmpty(question_name) ==
    Get(Get(questions_mapping, question_name, EmptyDict), "text", "")

\* lines 371 and 403
QuestionText(question_name) ==
    Get(Get(questions_mapping, question_name, EmptyDict), "text", "Unknown Question")

\* ChoiceText, with the coded value as the default
ChoiceTextOrValue(question_name, question_value) ==
    Get(Get(Get(questions_mapping, question_name, EmptyDict), "choices", EmptyDict),
        question_value, question_value)

\* line 374
ChoiceText(question_name, question_value) ==
    Get(Get(Get(questions_mapping, question_name, EmptyDict), "choices", EmptyDict),
        question_value, "Unknown Choice")

\* the first entry of valueText the generator of lines 377-378 selects, 0 when none
FirstMatch(question_name) ==
    IF \E k \in 1..Len(valueText) : valueText[k]["@name"] = question_name
    THEN CHOOSE k \in 1..Len(valueText) :
            /\ valueText[k]["@name"] = question_name
            /\ \A j \in 1..(k - 1) : valueText[j]["@name"] # question_name
    ELSE 0

\* item['#text'] of the selected entry raises KeyError (line 377)
TextLookupFails(question_name) ==
    FirstMatch(question_name) # 0 /\ ~HasKey(valueText[FirstMatch(question_name)], "#text")

\* next(..., None) of lines 376-379, when it does not raise
TextAnswerFor(question_name) ==
    IF FirstMatch(question_name) = 0 THEN None
    ELSE valueText[FirstMatch(question_name)]["#text"]

\* Overrides, were the test `text_answer is not None`
OverridesWhenNotNone(text_answer) == text_answer # None

\* the test of line 381
Overrides(text_answer) == Truthy(text_answer)

\* the record appended at lines 382-398
ChoiceRecord(answer) ==
    LET question_name == answer["@name"]
        question_value == answer["choice"]["@value"]
        text_answer == TextAnswerFor(question_name)
    IN  [respondent_id |-> data["respondentanswer"]["@key"],
         survey_id |-> SurveyId,
         question_name |-> question_name,
         question_text |-> QuestionText(question_name),
         question_value |-> question_value,
         choice_text |-> IF Overrides(text_answer) THEN text_answer
                         ELSE ChoiceText(question_name, question_value)]

\* any(a['question_name'] == question_name for a in answers) (line 402)
Seen(question_name) ==
    \E k \in 1..Len(answers) : answers[k].question_name = question_name

\* the test of line 406
Skipped(text_answer) == text_answer = None

\* the record appended at lines 409-416
TextRecord(answer) ==
    [respondent_id |-> data["respondentanswer"]["@key"],
     survey_id |-> SurveyId,
     question_name |-> answer["@name"],
     question_text |-> QuestionText(answer["@name"]),
     question_value |-> None,
     choice_text |-> Get(answer, "#text", None)]

\* AfterTextEntry, were the record inserted at the head of the list
AfterTextEntryFront(answer) ==
    IF Seen(answer["@name"]) \/ Skipped(Get(answer, "#text", None))
    THEN answers
    ELSE <<TextRecord(answer)>> \o answers

\* the list after one iteration of the loop of line 400
AfterTextEntry(answer) ==
    IF Seen(answer["@name"]) \/ Skipped(Get(answer, "#text", None))
    THEN answers
    ELSE Append(answers, TextRecord(answer))

\* lines 342-346
ParseSurvey ==
    /\ pc = "start"
    /\ \E doc \in QuestionnaireDocs :
        /\ json_data' = doc
        /\ IF HasVariables(doc)
           THEN pc' = "index" /\ err' = err
           ELSE pc' = "failed" /\ err' = "KeyError"
    /\ UNCHANGED <<questions_mapping, data, answers, si, ti, result, uvars>>

\* lines 345, 348-359
BuildIndex ==
    /\ pc = "index"
    /\ IF \E k \in 1..Len(foreground_variables) : ItemFails(foreground_variables[k])
       THEN pc' = "failed" /\ err' = "KeyError" /\ UNCHANGED questions_mapping
       ELSE /\ questions_mapping' =
                   BuildMapping(foreground_variables, Len(foreground_variables))
            /\ pc' = "parse"
            /\ err' = err
    /\ UNCHANGED <<json_data, data, answers, si, ti, result, uvars>>

\* lines 361-367
ParseResponse ==
    /\ pc = "parse"
    /\ \E doc \in RespondentDocs :
        /\ json_data' = doc
        /\ data' = doc
        /\ IF HasRoot(doc)
           THEN pc' = "loop" /\ err' = err
           ELSE pc' = "failed" /\ err' = "KeyError"
    /\ answers' = <<>>
    /\ si' = 1
    /\ ti' = 1
    /\ UNCHANGED <<questions_mapping, result, uvars>>

\* one iteration of the loop of lines 369-398
ChoiceStep ==
    /\ pc = "loop"
    /\ si <= Len(valueSingle)
    /\ IF TextLookupFails(valueSingle[si]["@name"])
       THEN pc' = "failed" /\ err' = "KeyError" /\ UNCHANGED <<answers, si>>
       ELSE /\ answers' = Append(answers, ChoiceRecord(valueSingle[si]))
            /\ si' = si + 1
            /\ UNCHANGED <<pc, err>>
    /\ UNCHANGED <<json_data, questions_mapping, data, ti, result, uvars>>

\* one iteration of the loop of lines 400-416
TextStep ==
    /\ pc = "loop"
    /\ si > Len(valueSingle)
    /\ ti <= Len(valueText)
    /\ answers' = AfterTextEntry(valueText[ti])
    /\ ti' = ti + 1
    /\ UNCHANGED <<pc, err, json_data, questions_mapping, data, si, result, uvars>>

\* line 418
Return ==
    /\ pc = "loop"
    /\ si > Len(valueSingle)
    /\ ti > Len(valueText)
    /\ pc' = "done"
    /\ result' = answers
    /\ UNCHANGED <<err, json_data, questions_mapping, data, answers, si, ti, uvars>>

UploadIdle ==
    /\ upc = "idle" /\ uerr = "none" /\ respondents = 0 /\ ri = 0 /\ attempt = 0
    /\ conns = <<>> /\ db_manager = 0 /\ uploader_db = 0
    /\ posts = <<>> /\ inserts = <<>> /\ failures = <<>> /\ commits = <<>>
    /\ rebuilds = <<>>

Init ==
    /\ pc = "start"
    /\ err = "none"
    /\ json_data = EmptyDict
    /\ questions_mapping = EmptyDict
    /\ data = EmptyDict
    /\ answers = <<>>
    /\ si = 1
    /\ ti = 1
    /\ result = None
    /\ UploadIdle

Next ==
    \/ ParseSurvey
    \/ BuildIndex
    \/ ParseResponse
    \/ ChoiceStep
    \/ TextStep
    \/ Return

Spec == Init /\ [][Next]_vars

(***************************************************************************)
(* process_base_respondents, CreateRespondent and DatabaseManager.         *)
(***************************************************************************)
Retries == 3

\* what one call of insert_respondent followed by lines 91-96 can do
\*   "payload"  lines 250-254 raise before the request is sent
\*   "raised"   requests.request raises (line 256, re-raised at line 267)
\*   "not200"   line 262 returns None, line 91 raises
\*   "badbody"  status 200, lines 91-96 raise on the body
\*   "ok"       status 200 and a body lines 91-96 accept
PostOutcomes == {"payload", "raised", "not200", "badbody", "ok"}

\* what one pass through lines 291-292 can do
AttemptOutcomes == {"ok", "execute", "commit"}

\* LastAttempt, were the test i + 1 == 2
LastAttemptEarly(i) == i + 1 = 2

\* i + 1 == 3 (line 295)
LastAttempt(i) == i + 1 = 3

\* range(3) has a value after i (line 289)
HasNext(i) == i + 1 < Retries

\* OnSaveFailure, were the respondent's iteration run again
RetryRespondent == "loop"

\* where process_base_respondents goes when save_respondent_to_db raises:
\* the call of lines 102-110 is in no try block
OnSaveFailure == "failed"

Bump(counter) == [counter EXCEPT ![ri] = @ + 1]

\* lines 48-56: DatabaseManager.__init__ (lines 15-24), CreateRespondent.__init__
Connect ==
    /\ upc = "start"
    /\ \E ok \in BOOLEAN :
        IF ok
        THEN /\ conns' = Append(conns, "open")
             /\ db_manager' = Len(conns) + 1
             /\ uploader_db' = Len(conns) + 1
             /\ upc' = "loop"
             /\ uerr' = uerr
        ELSE /\ upc' = "failed"
             /\ uerr' = "DatabaseManager"
             /\ UNCHANGED <<conns, db_manager, uploader_db>>
    /\ UNCHANGED <<respondents, ri, attempt, posts, inserts, failures, commits,
                   rebuilds, rvars>>

\* lines 58-96 for one respondent, with insert_respondent (lines 246-267)
InsertRespondent ==
    /\ upc = "loop"
    /\ ri <= respondents
    /\ \E outcome \in PostOutcomes :
        /\ posts' = IF outcome = "payload" THEN posts ELSE Bump(posts)
        /\ IF outcome = "ok"
           THEN upc' = "attempt" /\ uerr' = uerr
           ELSE /\ upc' = "failed"
                /\ uerr' = IF outcome \in {"payload", "raised"}
                           THEN "insert_respondent" ELSE "response"
    /\ attempt' = 0
    /\ UNCHANGED <<respondents, ri, conns, db_manager, uploader_db, inserts,
                   failures, commits, rebuilds, rvars>>

\* lines 290-296: one pass through the body of the loop of line 289
Attempt ==
    /\ upc = "attempt"
    /\ inserts' = Bump(inserts)
    /\ \E outcome \in AttemptOutcomes :
        IF outcome = "ok"
        THEN /\ commits' = Bump(commits)
             /\ ri' = ri + 1
             /\ upc' = "loop"
             /\ UNCHANGED <<failures, uerr>>
        ELSE /\ failures' = Bump(failures)
             /\ IF LastAttempt(attempt)
                THEN upc' = OnSaveFailure /\ uerr' = "save:insert"
                ELSE upc' = "rebuild" /\ uerr' = uerr
             /\ UNCHANGED <<commits, ri>>
    /\ UNCHANGED <<respondents, attempt, conns, db_manager, uploader_db, posts,
                   rebuilds, rvars>>

\* lines 298-305: DatabaseManager.__init__ (lines 15-24), then continue
Rebuild ==
    /\ upc = "rebuild"
    /\ rebuilds' = Bump(rebuilds)
    /\ \E ok \in BOOLEAN :
        IF ok
        THEN /\ conns' = Append(conns, "open")
             /\ uploader_db' = Len(conns) + 1
             /\ IF HasNext(attempt)
                THEN attempt' = attempt + 1 /\ upc' = "attempt" /\ ri' = ri
                ELSE attempt' = attempt /\ upc' = "loop" /\ ri' = ri + 1
             /\ uerr' = uerr
        ELSE /\ upc' = OnSaveFailure
             /\ uerr' = "save:connect"
             /\ UNCHANGED <<conns, uploader_db, attempt, ri>>
    /\ UNCHANGED <<respondents, db_manager, posts, inserts, failures, commits, rvars>>

\* line 115: DatabaseManager.disconnect (lines 26-34)
Disconnect ==
    /\ upc = "loop"
    /\ ri > respondents
    /\ conns' = [conns EXCEPT ![db_manager] = "closed"]
    /\ upc' = "done"
    /\ UNCHANGED <<uerr, respondents, ri, attempt, db_manager, uploader_db, posts,
                   inserts, failures, commits, rebuilds, rvars>>

AnswersIdle ==
    /\ pc = "idle" /\ err = "none" /\ json_data = EmptyDict
    /\ questions_mapping = EmptyDict /\ data = EmptyDict /\ answers = <<>>
    /\ si = 1 /\ ti = 1 /\ result = None

InitUpload ==
    /\ upc = "start"
    /\ uerr = "none"
    /\ respondents \in 0..MaxRespondents
    /\ ri = 1
    /\ attempt = 0
    /\ conns = <<>>
    /\ db_manager = 0
    /\ uploader_db = 0
    /\ posts = [r \in 1..respondents |-> 0]
    /\ inserts = [r \in 1..respondents |-> 0]
    /\ failures = [r \in 1..respondents |-> 0]
    /\ commits = [r \in 1..respondents |-> 0]
    /\ rebuilds = [r \in 1..respondents |-> 0]
    /\ AnswersIdle

NextUpload ==
    \/ Connect
    \/ InsertRespondent
    \/ Attempt
    \/ Rebuild
    \/ Disconnect

SpecUpload == InitUpload /\ [][NextUpload]_vars

(***************************************************************************)
(* Properties of get_answers (checked under Spec).                         *)
(***************************************************************************)
Returned == pc = "done"
SingleName(k) == valueSingle[k]["@name"]
SingleValue(k) == valueSingle[k]["choice"]["@value"]
\* the entries of valueText that name n
TextsOf(n) == {j \in 1..Len(valueText) : valueText[j]["@name"] = n}
\* the text of entry j of valueText, the empty string when it has none
TextOrEmpty(j) == IF "#text" \in DOMAIN valueText[j] THEN valueText[j]["#text"] ELSE ""
\* the first entry of valueText that names n (n is named by some entry)
FirstText(n) == CHOOSE j \in TextsOf(n) : \A i \in TextsOf(n) : j <= i
TextOnly(k) == result[k].question_value = None

\* C1: the returned list holds at most one record per question_name.
C1_AtMostOneRecordPerQuestion ==
    Returned =>
        \A i, j \in 1..Len(result) :
            i # j => result[i].question_name # result[j].question_name

\* C2 as claimed: a question with a ChoiceAnswer and a TextAnswer gets a record
\* whose choice_text is the TextAnswer's text and whose question_value is the
\* coded value, whatever the text is.
C2_TextAlwaysOverrides ==
    Returned =>
        \A k \in 1..Len(valueSingle) :
            TextsOf(SingleName(k)) # {} =>
                /\ result[k].question_value = SingleValue(k)
                /\ result[k].choice_text = TextOrEmpty(FirstText(SingleName(k)))

\* C2 amended: the TextAnswer's text overrides when it is not the empty string;
\* an empty text leaves the resolved choice text in place. question_value is
\* the coded value in both cases.
C2_NonEmptyTextOverrides ==
    Returned =>
        \A k \in 1..Len(valueSingle) :
            TextsOf(SingleName(k)) # {} =>
                LET text == TextOrEmpty(FirstText(SingleName(k)))
                    choices == IF SingleName(k) \in DOMAIN questions_mapping
                               THEN questions_mapping[SingleName(k)].choices
                               ELSE EmptyDict
                IN  /\ result[k].question_value = SingleValue(k)
                    /\ text # "" => result[k].choice_text = text
                    /\ text = "" =>
                          result[k].choice_text =
                              IF SingleValue(k) \in DOMAIN choices
                              THEN choices[SingleValue(k)]
                              ELSE "Unknown Choice"

C2_Witness ==
    /\ Returned
    /\ \E k \in 1..Len(valueSingle) :
          /\ TextsOf(SingleName(k)) # {}
          /\ result[k].choice_text = "free"
          /\ result[k].question_value = "1"
          /\ SingleName(k) \in DOMAIN questions_mapping
          /\ "1" \in DOMAIN questions_mapping[SingleName(k)].choices

\* C3: a question without a ChoiceAnswer whose TextAnswers all have an empty or
\* a missing text gets no record.
C3_EmptyTextSuppressed ==
    Returned =>
        \A n \in AnswerNames :
            ( /\ TextsOf(n) # {}
              /\ \A k \in 1..Len(valueSingle) : SingleName(k) # n
              /\ \A j \in TextsOf(n) : TextOrEmpty(j) = "" )
            => \A k \in 1..Len(result) : result[k].question_name # n

\* the questionnaire document read at line 346 lacks foreground/variable
MalformedQuestionnaire ==
    /\ pc \notin {"idle", "start"}
    /\ "questionnaire" \in DOMAIN json_data
    /\ \/ "foreground" \notin DOMAIN json_data["questionnaire"]
       \/ "variable" \notin DOMAIN json_data["questionnaire"]["foreground"]

\* the respondent document read at line 366 lacks respondentanswer
MalformedRespondent ==
    /\ pc \in {"loop", "failed", "done"}
    /\ "questionnaire" \notin DOMAIN json_data
    /\ "respondentanswer" \notin DOMAIN json_data

\* C4 as claimed: a document without its container makes get_answers fail with
\* a DocumentFormatError and return nothing.
C4_FailsWithDocumentFormatError ==
    (MalformedQuestionnaire \/ MalformedRespondent) =>
        pc = "failed" /\ err = "DocumentFormatError" /\ result = None

\* C4 amended: a document without its container makes get_answers fail with
\* the KeyError of the dictionary access and return nothing.
C4_FailsWithKeyError ==
    (MalformedQuestionnaire \/ MalformedRespondent) =>
        pc = "failed" /\ err = "KeyError" /\ result = None

C4_Witness ==
    /\ MalformedRespondent
    /\ pc = "failed"
    /\ "Q1" \in DOMAIN questions_mapping

\* the entry of valueText a text-only record k was made from
SourceOf(k) ==
    CHOOSE j \in 1..Len(valueText) :
        /\ valueText[j] = ("@name" :> result[k].question_name)
                              @@ ("#text" :> result[k].choice_text)
        /\ \A i \in 1..(j - 1) : valueText[i] # valueText[j]

\* C5: the records of the coded-choice entries come first, in the order of
\* their entries; the text-only records follow, in the order of their entries.
C5_PassOrder ==
    Returned =>
        /\ Len(result) >= Len(valueSingle)
        /\ \A k \in 1..Len(valueSingle) :
              /\ result[k].question_name = SingleName(k)
              /\ result[k].question_value = SingleValue(k)
        /\ \A k \in (Len(valueSingle) + 1)..Len(result) :
              /\ TextOnly(k)
              /\ \E j \in 1..Len(valueText) :
                    /\ valueText[j]["@name"] = result[k].question_name
                    /\ "#text" \in DOMAIN valueText[j]
                    /\ valueText[j]["#text"] = result[k].choice_text
        /\ \A k, m \in (Len(valueSingle) + 1)..Len(result) :
              k < m => SourceOf(k) < SourceOf(m)

C5_Witness ==
    /\ Returned
    /\ Len(valueSingle) = 2
    /\ SingleValue(1) # SingleValue(2)
    /\ Len(valueText) = 2
    /\ Len(result) = 3
    /\ TextOnly(3)
    /\ result[3].choice_text = "free"

\* the questionnaire document whose index has been built or has failed
IndexedDoc ==
    /\ pc \in {"parse", "failed"}
    /\ "questionnaire" \in DOMAIN json_data
    /\ "foreground" \in DOMAIN json_data["questionnaire"]
    /\ "variable" \in DOMAIN json_data["questionnaire"]["foreground"]
NoBody(entry) == "text" \in DOMAIN entry /\ "#text" \notin DOMAIN entry["text"]
NoTextBlock(entry) == "text" \notin DOMAIN entry

\* C6: an entry whose text block has no body does not make indexing fail
\* (indexing fails only on an entry without a text block), and the text of
\* such a question or choice is the empty string in the index.
C6_MissingBodyTolerated ==
    IndexedDoc =>
        LET list == json_data["questionnaire"]["foreground"]["variable"]
            last(n) == CHOOSE k \in 1..Len(list) :
                          /\ list[k]["@name"] = n
                          /\ \A m \in (k + 1)..Len(list) : list[m]["@name"] # n
            lastChoice(c, v) == CHOOSE k \in 1..Len(c) :
                          /\ c[k]["@value"] = v
                          /\ \A m \in (k + 1)..Len(c) : c[m]["@value"] # v
        IN  /\ pc = "failed" =>
                  \E k \in 1..Len(list) :
                      \/ NoTextBlock(list[k])
                      \/ /\ "varChoice" \in DOMAIN list[k]
                         /\ \E m \in 1..Len(list[k]["varChoice"]) :
                               NoTextBlock(list[k]["varChoice"][m])
            /\ pc = "parse" =>
                  \A k \in 1..Len(list) :
                      LET n == list[k]["@name"]
                          item == list[last(n)]
                      IN  /\ n \in DOMAIN questions_mapping
                          /\ NoBody(item) => questions_mapping[n].text = ""
                          /\ "varChoice" \in DOMAIN item =>
                                \A m \in 1..Len(item["varChoice"]) :
                                    LET v == item["varChoice"][m]["@value"]
                                        c == item["varChoice"][lastChoice(item["varChoice"], v)]
                                    IN  /\ v \in DOMAIN questions_mapping[n].choices
                                        /\ NoBody(c) => questions_mapping[n].choices[v] = ""

C6_Witness ==
    /\ IndexedDoc
    /\ pc = "parse"
    /\ \E k \in 1..Len(json_data["questionnaire"]["foreground"]["variable"]) :
          LET item == json_data["questionnaire"]["foreground"]["variable"][k]
          IN  /\ NoBody(item)
              /\ "varChoice" \in DOMAIN item
              /\ Len(item["varChoice"]) > 0
              /\ NoBody(item["varChoice"][1])
              /\ questions_mapping[item["@name"]] = [text |-> "", choices |-> ("1" :> "")]

\* the records built so far, or returned
Emitted == IF pc \in {"loop", "done"} THEN answers ELSE <<>>

\* C8: a record whose question_name is not in the index has question_text
\* "Unknown Question", a record whose question_name is in the index has the
\* indexed text, and an unknown question_name never makes the reconciliation
\* fail: every coded-choice entry gets its record.
C8_UnknownQuestion ==
    /\ \A k \in 1..Len(Emitted) :
          Emitted[k].question_text =
              IF Emitted[k].question_name \in DOMAIN questions_mapping
              THEN questions_mapping[Emitted[k].question_name].text
              ELSE "Unknown Question"
    /\ (pc = "failed" /\ "respondentanswer" \in DOMAIN json_data) =>
          \E k \in 1..Len(valueSingle) :
              /\ TextsOf(SingleName(k)) # {}
              /\ "#text" \notin DOMAIN valueText[FirstText(SingleName(k))]
    /\ Returned => Len(result) >= Len(valueSingle)

C8_Witness ==
    /\ Returned
    /\ Len(result) = 2
    /\ ~TextOnly(1)
    /\ result[1].question_name \notin DOMAIN questions_mapping
    /\ result[1].question_text = "Unknown Question"
    /\ TextOnly(2)
    /\ result[2].question_name \in DOMAIN questions_mapping
    /\ result[2].question_text = "Prompt"

\* C9: a ChoiceAnswer whose question has no TextAnswer gets a record with the
\* coded value and, as choice_text, the text the question's choices map the
\* value to, or "Unknown Choice" when they do not map it (or the question is
\* not indexed).
C9_UnknownChoice ==
    Returned =>
        \A k \in 1..Len(valueSingle) :
            TextsOf(SingleName(k)) = {} =>
                /\ result[k].question_value = SingleValue(k)
                /\ result[k].choice_text =
                      IF /\ SingleName(k) \in DOMAIN questions_mapping
                         /\ SingleValue(k) \in
                               DOMAIN questions_mapping[SingleName(k)].choices
                      THEN questions_mapping[SingleName(k)].choices[SingleValue(k)]
                      ELSE "Unknown Choice"

C9_Witness ==
    /\ Returned
    /\ Len(valueText) = 0
    /\ Len(result) = 2
    /\ result[1].question_name = "Q1" /\ result[1].question_value = "9"
    /\ result[1].choice_text = "Unknown Choice"
    /\ result[2].question_name = "Q1" /\ result[2].question_value = "1"
    /\ result[2].choice_text = "Yes"

(***************************************************************************)
(* Properties of process_base_respondents (checked under SpecUpload).      *)
(***************************************************************************)
SaveRaised == upc = "failed" /\ uerr \in {"save:insert", "save:connect"}
InSave == upc \in {"attempt", "rebuild"} \/ SaveRaised

\* C7: a respondent is submitted over HTTP once, also when its persistence
\* fails, and its insert is attempted at most three times.
C7_RetryScope ==
    \A r \in 1..respondents :
        /\ posts[r] <= 1
        /\ inserts[r] <= 3
        /\ (r < ri \/ (r = ri /\ InSave)) => posts[r] = 1
        /\ (inserts[r] > 0 \/ failures[r] > 0) => posts[r] = 1

C7_Witness ==
    /\ SaveRaised
    /\ uerr = "save:insert"
    /\ ri = 2
    /\ posts = <<1, 1, 0>>
    /\ inserts = <<2, 3, 0>>
    /\ failures = <<1, 3, 0>>

\* C10 as claimed: save_respondent_to_db raises only after three failed
\* insert attempts.
C10_RaisesOnlyAfterThree ==
    SaveRaised => failures[ri] = 3

\* C10 amended: save_respondent_to_db raises after three failed insert
\* attempts, or earlier when the rebuild of the connection that follows a
\* failed attempt fails; every failed attempt before the third is followed by
\* a rebuild and, when the rebuild succeeds, by a further attempt; otherwise
\* the call returns after exactly one execute-and-commit that succeeded, and
\* no attempt follows it.
C10_RetryOutcome ==
    \A r \in 1..respondents :
        /\ commits[r] <= 1
        /\ (r = ri /\ SaveRaised /\ uerr = "save:insert") =>
              /\ failures[r] = 3 /\ inserts[r] = 3
              /\ rebuilds[r] = 2 /\ commits[r] = 0
        /\ (r = ri /\ SaveRaised /\ uerr = "save:connect") =>
              /\ failures[r] \in {1, 2} /\ inserts[r] = failures[r]
              /\ rebuilds[r] = failures[r] /\ commits[r] = 0
        /\ (r = ri /\ upc = "attempt") =>
              /\ failures[r] = attempt /\ inserts[r] = attempt
              /\ rebuilds[r] = attempt /\ commits[r] = 0
        /\ (r = ri /\ upc = "rebuild") =>
              /\ failures[r] = attempt + 1 /\ inserts[r] = attempt + 1
              /\ rebuilds[r] = attempt /\ commits[r] = 0
        /\ r < ri =>
              /\ commits[r] = 1
              /\ failures[r] <= 2
              /\ inserts[r] = failures[r] + 1
              /\ rebuilds[r] = failures[r]

C10_Witness ==
    /\ SaveRaised
    /\ uerr = "save:insert"
    /\ ri = 2
    /\ commits = <<1, 0, 0>>
    /\ failures = <<2, 3, 0>>
    /\ rebuilds = <<2, 2, 0>>
    /\ Len(conns) = 5

(***************************************************************************)
(* Further properties of get_answers (checked under Spec).                 *)
(***************************************************************************)
\* the respondent document has been read and has its root
Reconciling == pc \in {"loop", "failed", "done"} /\ "respondentanswer" \in DOMAIN data
\* the coded-choice entries that name n
SinglesOf(n) == {k \in 1..Len(valueSingle) : SingleName(k) = n}
\* n has one coded-choice entry and a text entry without a text body
ChoiceWithBodilessText(n) ==
    /\ Cardinality(SinglesOf(n)) = 1
    /\ \E j \in TextsOf(n) : "#text" \notin DOMAIN valueText[j]

\* C11: when the question of a ChoiceAnswer also has a TextAnswer entry without
\* a text body, get_answers does not fail, and it returns exactly one record
\* for that question, carrying the coded value.
C11_BodilessTextIsNoError ==
    Reconciling =>
        \A n \in AnswerNames :
            ChoiceWithBodilessText(n) =>
                /\ pc # "failed"
                /\ Returned =>
                      /\ Cardinality({k \in 1..Len(result) :
                                         result[k].question_name = n}) = 1
                      /\ \A k \in 1..Len(result) :
                            result[k].question_name = n =>
                                result[k].question_value =
                                    SingleValue(CHOOSE i \in SinglesOf(n) : TRUE)

====
